---- MODULE Spec2Model ----
(***************************************************************************)
(* tfjs-umap: the UMAP class (constructor, fit, fitTransform) of           *)
(* src/unnamed/part_000 and the helpers of src/unnamed/part_001            *)
(* (findABParams, curveFit, tauRandInt, tauRand).                          *)
(*                                                                         *)
(* JavaScript values are records [kind, v, w]:                             *)
(*   undefined            kind = "undefined"                               *)
(*   a number n           kind = "number",   v = n                         *)
(*   a tf.variable        kind = "variable"  (what findABParams returns)   *)
(*   tf.zeros([r, c])     kind = "zeros",    v = r, w = c                  *)
(* The float parameters (minDist, spread, setOpMixRatio, repulsionStrength,*)
(* a, b) are counted in tenths: 0.1 is 1 and 1.0 is 10.  The integer       *)
(* parameters (nNeighbors, nComponents) are counted in units.              *)
(***************************************************************************)
EXTENDS Integers, Sequences, FiniteSets, TLC

\* Bounds of the model.
MaxRows == 3
MaxFits == 2
MaxDraws == 2

VARIABLES
    config,         \* the object handed to the constructor
    globals,        \* the names the host's global scope defines
    this,           \* the fields of the UMAP instance
    selfEmbedding,  \* the property embedding_ of the global object `self`
    pc,             \* where the fit call in flight is suspended
    api,            \* the method the caller invoked: "fit" or "fitTransform"
    X,              \* the dataset of the call in flight or of the last call
    result,         \* the promise the caller holds for the last call
    stages,         \* the pipeline stages the last call has completed
    curveFitCalls,  \* invocations of findABParams in the last call
    knnCalls,       \* invocations of nearestNeighbors in the last call
    knnArg,         \* the neighbor count handed to nearestNeighbors
    failure,        \* the error a stage of the last call raised, "" if none
    fits,           \* fit calls started on the instance
    heap,           \* the rng state arrays: 3 words each
    calls,          \* per stream, the draws issued: "int" or "float"
    outs,           \* per stream, what each draw returned
    cfArgs,         \* the arguments of findABParams: spread and minDist
    cfPc,           \* findABParams: "idle", "train" (inside curveFit), "done"
    xs,             \* the tensor xs handed to curveFit
    ys,             \* the tensor ys handed to curveFit
    iter            \* curveFit: the loop counter i of train

umapVars == <<config, globals, this, selfEmbedding, pc, api, X, result, stages,
              curveFitCalls, knnCalls, knnArg, failure, fits>>

----------------------------------------------------------------------------
\* JavaScript values

Undef == [kind |-> "undefined", v |-> 0, w |-> 0]

Num(n) == [kind |-> "number", v |-> n, w |-> 0]

\* A tf.variable holding a fitted curve parameter.
Variable == [kind |-> "variable", v |-> 0, w |-> 0]

\* tf.zeros([r, c])
Zeros(r, c) == [kind |-> "zeros", v |-> r, w |-> c]

\* The UMAP instance itself, as the value `return this` hands back.
Instance == [kind |-> "instance", v |-> 0, w |-> 0]

\* What nearestNeighbors resolves to.
KNNResult == [kind |-> "knn", v |-> 0, w |-> 0]

\* x || d on an optional number: undefined and 0 are falsy.
OrDefault(x, d) ==
    IF x.kind = "undefined" \/ (x.kind = "number" /\ x.v = 0) THEN Num(d) ELSE x

----------------------------------------------------------------------------
\* The configurations and datasets the model draws from.

NNeighborsValues == {Undef, Num(1), Num(2), Num(3)}
NComponentsValues == {Undef, Num(3)}
MinDistValues == {Undef, Num(20), Num(-1)}
SpreadValues == {Undef, Num(20)}
SetOpMixRatioValues == {Undef, Num(0), Num(15)}
RepulsionStrengthValues == {Undef, Num(0), Num(-10)}
AValues == {Undef, Num(15)}
BValues == {Undef, Num(9)}

NoConfig ==
    [nNeighbors |-> Undef, nComponents |-> Undef, minDist |-> Undef,
     spread |-> Undef, setOpMixRatio |-> Undef, repulsionStrength |-> Undef,
     a |-> Undef, b |-> Undef]

\* Configurations that vary what fit reads, and configurations that vary
\* what the constructor's comments constrain.
Configs ==
    { [NoConfig EXCEPT !.nNeighbors = n, !.nComponents = c, !.a = pa, !.b = pb] :
        n \in NNeighborsValues, c \in NComponentsValues,
        pa \in AValues, pb \in BValues }
    \cup
    { [NoConfig EXCEPT !.minDist = m, !.spread = s, !.setOpMixRatio = r,
                       !.repulsionStrength = p, !.a = ab[1], !.b = ab[2]] :
        m \in MinDistValues, s \in SpreadValues, r \in SetOpMixRatioValues,
        p \in RepulsionStrengthValues, ab \in {<<Undef, Undef>>, <<Num(15), Num(9)>>} }

\* The free identifiers of part_000 that no import binds: they resolve in
\* the host's global scope, and evaluating one the host does not define
\* throws a ReferenceError.
FreeNames == {"findABParams", "nearestNeighbors", "self"}

\* A dataset: its row count, and whether tf.tensor accepts it.
Datasets == [rows : 0..MaxRows, ok : BOOLEAN]

----------------------------------------------------------------------------
\* UMAP.constructor

Constructor(cfg) ==
    [nNeighbors        |-> OrDefault(cfg.nNeighbors, 15),
     nComponents       |-> OrDefault(cfg.nComponents, 2),
     minDist           |-> OrDefault(cfg.minDist, 1),
     spread            |-> OrDefault(cfg.spread, 10),
     setOpMixRatio     |-> OrDefault(cfg.setOpMixRatio, 10),
     repulsionStrength |-> OrDefault(cfg.repulsionStrength, 10),
     a                 |-> cfg.a,
     b                 |-> cfg.b,
     _rawData          |-> Undef,
     _nNeighbors       |-> Undef,
     _KNNIndices       |-> Undef,
     embedding_        |-> Undef]

----------------------------------------------------------------------------
\* Promises of the async methods

NoCall == [state |-> "none", value |-> Undef, error |-> ""]

Pending == [state |-> "pending", value |-> Undef, error |-> ""]

\* Reject as a handler that swallows the exception would leave it.
RejectSwallowed(m, err) == [state |-> "resolved", value |-> Undef, error |-> ""]

\* An exception inside fit rejects fit's promise; fitTransform awaits it
\* without a handler, so its own promise rejects with the same error.
Reject(m, err) == [state |-> "rejected", value |-> Undef, error |-> err]

\* fit returned fitValue on the instance t: fit's caller gets fitValue,
\* fitTransform's caller gets t.embedding_.
Resolve(m, fitValue, t) ==
    [state |-> "resolved",
     value |-> IF m = "fitTransform" THEN t.embedding_ ELSE fitValue,
     error |-> ""]

----------------------------------------------------------------------------
\* UMAP.fit

\* EffectiveNeighbors truncating to the dataset size instead of one less.
EffectiveNeighborsOffByOne(n, nNeighbors) ==
    IF n <= nNeighbors THEN n ELSE nNeighbors

\* The neighbor count of a dataset of n rows (n # 1).
EffectiveNeighbors(n, nNeighbors) ==
    IF n <= nNeighbors THEN n - 1 ELSE nNeighbors

\* fit from `this._initialAlpha = ...` to its next suspension or its end,
\* on the instance t, for method m and dataset d.
FitAfterAB(t, m, d) ==
    IF ~d.ok
    THEN \* tf.tensor(X) throws
         /\ this' = t
         /\ failure' = "TensorError"
         /\ result' = Reject(m, "TensorError")
         /\ pc' = "idle"
         /\ knnCalls' = 0 /\ knnArg' = Undef
         /\ UNCHANGED selfEmbedding
    ELSE IF d.rows <= t.nNeighbors.v /\ d.rows = 1
    THEN IF "self" \in globals
         THEN /\ selfEmbedding' = Zeros(1, t.nComponents.v)
              /\ this' = t
              /\ failure' = ""
              /\ result' = Resolve(m, Instance, t)
              /\ pc' = "idle"
              /\ knnCalls' = 0 /\ knnArg' = Undef
         ELSE /\ this' = t
              /\ failure' = "ReferenceError"
              /\ result' = Reject(m, "ReferenceError")
              /\ pc' = "idle"
              /\ knnCalls' = 0 /\ knnArg' = Undef
              /\ UNCHANGED selfEmbedding
    ELSE LET t2 == [t EXCEPT !._nNeighbors =
                        Num(EffectiveNeighbors(d.rows, t.nNeighbors.v))]
         IN  /\ this' = t2
             /\ UNCHANGED selfEmbedding
             /\ IF "nearestNeighbors" \in globals
                THEN /\ pc' = "awaitKNN"
                     /\ failure' = ""
                     /\ result' = Pending
                     /\ knnCalls' = 1
                     /\ knnArg' = t2._nNeighbors
                ELSE /\ pc' = "idle"
                     /\ failure' = "ReferenceError"
                     /\ result' = Reject(m, "ReferenceError")
                     /\ knnCalls' = 0 /\ knnArg' = Undef

\* The caller invokes fit(X) or fitTransform(X): fit runs to its first
\* suspension, or to its end when nothing suspends it.
Call(m, d) ==
    /\ pc = "idle"
    /\ fits < MaxFits
    /\ fits' = fits + 1
    /\ api' = m
    /\ X' = d
    /\ stages' = << >>
    /\ UNCHANGED <<config, globals, heap, calls, outs, cfArgs, cfPc, xs, ys, iter>>
    /\ LET t == [this EXCEPT !._rawData = Num(d.rows)]
       IN  IF t.a.kind = "undefined" \/ t.b.kind = "undefined"
           THEN /\ this' = t
                /\ knnCalls' = 0 /\ knnArg' = Undef
                /\ UNCHANGED selfEmbedding
                /\ IF "findABParams" \in globals
                   THEN /\ pc' = "awaitAB"
                        /\ curveFitCalls' = 1
                        /\ failure' = ""
                        /\ result' = Pending
                   ELSE /\ pc' = "idle"
                        /\ curveFitCalls' = 0
                        /\ failure' = "ReferenceError"
                        /\ result' = Reject(m, "ReferenceError")
           ELSE /\ curveFitCalls' = 0
                /\ FitAfterAB(t, m, d)

\* findABParams settles: fit stores the fitted a and b and runs on, or
\* the curve fit threw.
FindABReturns(ok) ==
    /\ pc = "awaitAB"
    /\ UNCHANGED <<config, globals, api, X, stages, curveFitCalls, fits>>
    /\ UNCHANGED <<heap, calls, outs, cfArgs, cfPc, xs, ys, iter>>
    /\ IF ok
       THEN FitAfterAB([this EXCEPT !.a = Variable, !.b = Variable], api, X)
       ELSE /\ pc' = "idle"
            /\ failure' = "CurveFitError"
            /\ result' = Reject(api, "CurveFitError")
            /\ UNCHANGED <<this, selfEmbedding, knnCalls, knnArg>>

\* nearestNeighbors settles: fit stores its result and ends (the graph
\* construction that follows is commented out), or the search threw.
NearestNeighborsReturns(ok) ==
    /\ pc = "awaitKNN"
    /\ pc' = "idle"
    /\ UNCHANGED <<config, globals, selfEmbedding, api, X, curveFitCalls,
                   knnCalls, knnArg, fits>>
    /\ UNCHANGED <<heap, calls, outs, cfArgs, cfPc, xs, ys, iter>>
    /\ IF ok
       THEN LET t == [this EXCEPT !._KNNIndices = KNNResult]
            IN  /\ this' = t
                /\ stages' = Append(stages, "NeighborsComputed")
                /\ failure' = ""
                /\ result' = Resolve(api, Undef, t)
       ELSE /\ failure' = "NeighborSearchError"
            /\ result' = Reject(api, "NeighborSearchError")
            /\ UNCHANGED <<this, stages>>

----------------------------------------------------------------------------
\* 32-bit integers.  JavaScript's bitwise operators take ToInt32 of their
\* operands and return a signed 32-bit integer; a word is kept here as that
\* signed value and taken apart into its 32 bits for each operator.

MinInt32 == -2147483647 - 1

\* The 32 two's-complement bits of the signed word n, bit 0 the lowest.
Bits(n) ==
    LET low == IF n < 0 THEN (n + 2147483647) + 1 ELSE n
    IN  [i \in 0..31 |-> IF i = 31 THEN (IF n < 0 THEN 1 ELSE 0)
                                   ELSE (low \div (2 ^ i)) % 2]

RECURSIVE LowSum(_, _)
LowSum(b, i) == IF i < 0 THEN 0 ELSE b[i] * (2 ^ i) + LowSum(b, i - 1)

\* The signed word of 32 bits.
Int32(b) == IF b[31] = 1 THEN (LowSum(b, 30) - 2147483647) - 1 ELSE LowSum(b, 30)

\* x & y
BitAnd(x, y) ==
    LET bx == Bits(x) by == Bits(y)
    IN  Int32([i \in 0..31 |-> bx[i] * by[i]])

\* x ^ y
BitXor(x, y) ==
    LET bx == Bits(x) by == Bits(y)
    IN  Int32([i \in 0..31 |-> (bx[i] + by[i]) % 2])

\* x << k
Shl(x, k) ==
    LET bx == Bits(x)
    IN  Int32([i \in 0..31 |-> IF i < k THEN 0 ELSE bx[i - k]])

\* x >> k, the sign-propagating shift
Sar(x, k) ==
    LET bx == Bits(x)
    IN  Int32([i \in 0..31 |-> IF i + k > 31 THEN bx[31] ELSE bx[i + k]])

----------------------------------------------------------------------------
\* tauRandInt, tauRand

\* One lane of tauRandInt: ToInt32 of the mask 4294967294 is -2, of
\* 4294967288 is -8, of 4294967280 is -16 and of 0xffffffff is -1.
Lane(w, mask, up, left, down) ==
    BitXor(BitAnd(Shl(BitAnd(w, mask), up), -1),
           Sar(BitXor(BitAnd(Shl(w, left), -1), w), down))

\* The state array after one tauRandInt.
TauStep(state) ==
    << Lane(state[1], -2, 12, 13, 19),
       Lane(state[2], -8, 4, 2, 25),
       Lane(state[3], -16, 17, 3, 11) >>

\* tauRandInt keeping its state in one module-level array (address 1)
\* instead of the array it is handed.
tauRandIntShared(h, p) ==
    LET st == TauStep(h[1])
    IN  [heap |-> [h EXCEPT ![1] = st],
         ret  |-> BitXor(BitXor(st[1], st[2]), st[3])]

\* tauRandInt on the state array at address p of the heap h: the heap
\* after the call and the value returned.
tauRandInt(h, p) ==
    LET st == TauStep(h[p])
    IN  [heap |-> [h EXCEPT ![p] = st],
         ret  |-> BitXor(BitXor(st[1], st[2]), st[3])]

\* tauRand: the returned float is the quotient num / den.
tauRand(h, p) ==
    LET r == tauRandInt(h, p)
    IN  [heap |-> r.heap, ret |-> [num |-> r.ret, den |-> 2147483647]]

\* The words a state array may start from (ToInt32 of what makeRngState
\* draws is any 32-bit word).
SeedWords == {1, 12345, -7, 2147483647}

\* Streams 1 and 2 are two runs started from one seed; array 3 belongs to
\* another caller.
Streams == {1, 2}

DrawInt(p) ==
    /\ Len(calls[p]) < MaxDraws
    /\ UNCHANGED <<umapVars, cfArgs, cfPc, xs, ys, iter>>
    /\ LET r == tauRandInt(heap, p)
       IN  /\ heap' = r.heap
           /\ calls' = [calls EXCEPT ![p] = Append(@, "int")]
           /\ outs' = [outs EXCEPT ![p] = Append(@, [num |-> r.ret, den |-> 1])]

DrawFloat(p) ==
    /\ Len(calls[p]) < MaxDraws
    /\ UNCHANGED <<umapVars, cfArgs, cfPc, xs, ys, iter>>
    /\ LET r == tauRand(heap, p)
       IN  /\ heap' = r.heap
           /\ calls' = [calls EXCEPT ![p] = Append(@, "float")]
           /\ outs' = [outs EXCEPT ![p] = Append(@, r.ret)]

----------------------------------------------------------------------------
\* findABParams, curveFit

numSamples == 300
numIterations == 75

\* A tensor is a function on 0..numSamples-1.  An element is the constant
\* num (kind "const", 0 or 1), the quotient num/den (kind "ratio"), or
\* exp(num/den) (kind "exp").
Const(c) == [kind |-> "const", num |-> c, den |-> 1]

\* tf.linspace(0, stop, numSamples)
Linspace(stop) ==
    [i \in 0..(numSamples - 1) |->
        [kind |-> "ratio", num |-> i * stop, den |-> numSamples - 1]]

\* tf.zeros(shape), tf.ones(shape)
ZerosLike(t) == [i \in DOMAIN t |-> Const(0)]

OnesLike(t) == [i \in DOMAIN t |-> Const(1)]

\* t.less(tf.scalar(c)), t.greaterEqual(tf.scalar(c)) on a tensor of ratios
Less(t, c) == [i \in DOMAIN t |-> t[i].num < c * t[i].den]

GreaterEqual(t, c) == [i \in DOMAIN t |-> t[i].num >= c * t[i].den]

\* tf.exp(tf.scalar(0).sub(t.sub(tf.scalar(minDist)).div(tf.scalar(spread))))
ExpDecay(t, minDist, spread) ==
    [i \in DOMAIN t |->
        [kind |-> "exp", num |-> minDist * t[i].den - t[i].num,
         den |-> spread * t[i].den]]

\* a.where(condition, b): a new tensor, a where the condition holds and b
\* elsewhere; a itself is left as it is.
Where(a, condition, b) == [i \in DOMAIN a |-> IF condition[i] THEN a[i] ELSE b[i]]

\* The yv findABParams hands to curveFit: both where(...) calls build a
\* tensor that is assigned to nothing.
TargetCurve(xv, spread, minDist) ==
    LET yv == ZerosLike(xv)
        dropped1 == Where(yv, Less(xv, minDist), OnesLike(xv))
        dropped2 == Where(yv, GreaterEqual(xv, minDist),
                          ExpDecay(xv, minDist, spread))
    IN  yv

SpreadInputs == {5, 10, 20}
MinDistInputs == {1, 5, 10}

NoTensor == [i \in {} |-> Const(0)]

\* findABParams(spread, minDist) up to the first iteration of train.
FindABParams(spread, minDist) ==
    /\ cfPc = "idle"
    /\ cfArgs' = [spread |-> spread, minDist |-> minDist]
    /\ LET xv == Linspace(spread * 3)
       IN  /\ xs' = xv
           /\ ys' = TargetCurve(xv, spread, minDist)
    /\ iter' = 0
    /\ cfPc' = "train"
    /\ UNCHANGED <<umapVars, heap, calls, outs>>

\* One iteration of train: optimizer.minimize, then await tf.nextFrame().
TrainStep ==
    /\ cfPc = "train"
    /\ iter < numIterations
    /\ iter' = iter + 1
    /\ UNCHANGED <<cfArgs, cfPc, xs, ys>>
    /\ UNCHANGED <<umapVars, heap, calls, outs>>

\* train's loop ends; curveFit and findABParams return.
TrainDone ==
    /\ cfPc = "train"
    /\ iter >= numIterations
    /\ cfPc' = "done"
    /\ UNCHANGED <<cfArgs, iter, xs, ys>>
    /\ UNCHANGED <<umapVars, heap, calls, outs>>

----------------------------------------------------------------------------
\* Specifications

InitUmap ==
    /\ config \in Configs
    /\ globals \in SUBSET FreeNames
    /\ this = Constructor(config)
    /\ selfEmbedding = Undef
    /\ pc = "idle"
    /\ api = "fit"
    /\ X = [rows |-> 0, ok |-> TRUE]
    /\ result = NoCall
    /\ stages = << >>
    /\ curveFitCalls = 0
    /\ knnCalls = 0
    /\ knnArg = Undef
    /\ failure = ""
    /\ fits = 0

UmapIdle == config = NoConfig /\ globals = {} /\ InitUmap

InitRng ==
    /\ \E seed \in SeedWords \X SeedWords \X SeedWords :
          heap = [p \in 1..3 |-> IF p = 3 THEN <<12345, 1, -7>> ELSE seed]
    /\ calls = [p \in Streams |-> << >>]
    /\ outs = [p \in Streams |-> << >>]

RngIdle ==
    /\ heap = [p \in 1..3 |-> <<0, 0, 0>>]
    /\ calls = [p \in Streams |-> << >>]
    /\ outs = [p \in Streams |-> << >>]

InitCurve ==
    /\ cfArgs = [spread |-> 0, minDist |-> 0]
    /\ cfPc = "idle"
    /\ xs = NoTensor
    /\ ys = NoTensor
    /\ iter = 0

vars == <<config, globals, this, selfEmbedding, pc, api, X, result, stages,
          curveFitCalls, knnCalls, knnArg, failure, fits,
          heap, calls, outs, cfArgs, cfPc, xs, ys, iter>>

\* The UMAP instance under its callers.
Init ==
    /\ InitUmap
    /\ RngIdle
    /\ InitCurve

Next ==
    \/ \E m \in {"fit", "fitTransform"}, d \in Datasets : Call(m, d)
    \/ \E ok \in BOOLEAN : FindABReturns(ok)
    \/ \E ok \in BOOLEAN : NearestNeighborsReturns(ok)

Spec == Init /\ [][Next]_vars

\* The random number generator under two callers.
RngInit ==
    /\ InitRng
    /\ UmapIdle
    /\ InitCurve

RngNext ==
    \/ \E p \in Streams : DrawInt(p)
    \/ \E p \in Streams : DrawFloat(p)

SpecRng == RngInit /\ [][RngNext]_vars

\* The curve fitter.
CurveInit ==
    /\ InitCurve
    /\ UmapIdle
    /\ RngIdle

CurveNext ==
    \/ \E spread \in SpreadInputs, minDist \in MinDistInputs :
          FindABParams(spread, minDist)
    \/ TrainStep
    \/ TrainDone

SpecCurve == CurveInit /\ [][CurveNext]_vars

----------------------------------------------------------------------------
\* Properties

Min(x, y) == IF x <= y THEN x ELSE y

\* The value a parameter has by its documentation: the supplied one, or
\* the default when it is omitted.
Documented(x, d) == IF x.kind = "undefined" THEN d ELSE x.v

\* The configuration satisfies the constraints the constructor's comments
\* state (minDist in (0, spread], setOpMixRatio in [0, 1],
\* repulsionStrength >= 0).
ValidConfig(cfg) ==
    /\ Documented(cfg.minDist, 1) > 0
    /\ Documented(cfg.minDist, 1) <= Documented(cfg.spread, 10)
    /\ Documented(cfg.setOpMixRatio, 10) \in 0..10
    /\ Documented(cfg.repulsionStrength, 10) >= 0

\* A call has run to its end.
Completed == fits > 0 /\ pc = "idle"

PipelineStages ==
    <<"NeighborsComputed", "GraphBuilt", "EmbeddingInitialized", "Optimizing">>

\* C1: whenever fitTransform on a dataset of more than one row resolves,
\* the call has passed NeighborsComputed, GraphBuilt, EmbeddingInitialized
\* and Optimizing in that order, and the value it resolves to is the
\* N x nComponents embedding published on the instance, never undefined.
C1_FitTransformReturnsEmbedding ==
    (Completed /\ api = "fitTransform" /\ result.state = "resolved" /\ X.rows > 1)
        => /\ stages = PipelineStages
           /\ result.value = this.embedding_
           /\ result.value.kind # "undefined"
           /\ result.value.v = X.rows
           /\ result.value.w = this.nComponents.v

\* C2: for every valid configuration, a fit on a dataset of at most one row
\* never invokes the neighbor search, resolves, and publishes on the
\* instance an all-zero embedding of shape (N, nComponents), which is what
\* fitTransform resolves to.
C2_SingleRowZeroEmbedding ==
    (ValidConfig(config) /\ fits > 0 /\ X.ok /\ X.rows <= 1)
        => /\ knnCalls = 0
           /\ pc = "idle" =>
                 /\ result.state = "resolved"
                 /\ this.embedding_ = Zeros(X.rows, this.nComponents.v)
                 /\ api = "fitTransform" =>
                       result.value = Zeros(X.rows, this.nComponents.v)

\* C3: when a stage of a fit call fails (curve fitting, input conversion,
\* neighbor search, an unbound name), the call is over, the caller's promise
\* is rejected with that very error, and the instance holds no embedding.
C3_FailureSurfacedNothingPublished ==
    failure # ""
        => /\ pc = "idle"
           /\ result.state = "rejected"
           /\ result.error = failure
           /\ this.embedding_ = Undef

\* A fitTransform call whose neighbor search failed.
C3_Witness ==
    /\ failure = "NeighborSearchError"
    /\ api = "fitTransform"
    /\ knnCalls = 1

C5_TauRandInUnitInterval ==
    \A p \in Streams : \A k \in 1..Len(outs[p]) :
        /\ 0 <= outs[p][k].num
        /\ outs[p][k].num <= 2147483647

\* C6: two streams started from the same state that issue the same draws
\* get the same outputs and end in the same state, whatever the order in
\* which their draws interleave; and no draw changes another caller's array.
C6_RngDeterministic ==
    /\ \A k \in 1..Min(Len(calls[1]), Len(calls[2])) :
          SubSeq(calls[1], 1, k) = SubSeq(calls[2], 1, k)
              => outs[1][k] = outs[2][k]
    /\ calls[1] = calls[2] => heap[1] = heap[2]
    /\ heap[3] = <<12345, 1, -7>>

\* Both streams have drawn an int and then a float.
C6_Witness ==
    /\ calls[1] = <<"int", "float">>
    /\ calls[2] = <<"int", "float">>
    /\ heap[1] # <<12345, 1, -7>>

\* A parameter supplied inside its documented range is stored as supplied,
\* and an omitted one gets the default d.
Kept(supplied, stored, d, inRange) ==
    IF supplied.kind = "undefined" THEN stored = Num(d)
    ELSE inRange => stored = supplied

\* C7: the constructor stores every parameter supplied inside its documented
\* range unchanged (setOpMixRatio 0.0 and repulsionStrength 0 included) and
\* uses the default only for an omitted one.
C7_ConstructorKeepsSupplied ==
    /\ Kept(config.nNeighbors, this.nNeighbors, 15, config.nNeighbors.v >= 2)
    /\ Kept(config.nComponents, this.nComponents, 2, config.nComponents.v >= 1)
    /\ Kept(config.minDist, this.minDist, 1,
            config.minDist.v > 0 /\ config.minDist.v <= Documented(config.spread, 10))
    /\ Kept(config.spread, this.spread, 10, config.spread.v > 0)
    /\ Kept(config.setOpMixRatio, this.setOpMixRatio, 10,
            config.setOpMixRatio.v \in 0..10)
    /\ Kept(config.repulsionStrength, this.repulsionStrength, 10,
            config.repulsionStrength.v >= 0)

\* C8: an instance whose configuration is invalid never runs a fit
\* computation: it never waits on the curve fit or the neighbor search and
\* invokes neither.
C8_InvalidConfigRejected ==
    ~ValidConfig(config)
        => /\ pc \notin {"awaitAB", "awaitKNN"}
           /\ curveFitCalls = 0
           /\ knnCalls = 0

\* C9: fit never overwrites an a or b the configuration supplied; and, where
\* the host binds the curve fitter, a call that ran to its end invoked it
\* once when neither was supplied and not at all when both were.
C9_CurveParamsOncePerFit ==
    /\ config.a.kind # "undefined" => this.a = config.a
    /\ config.b.kind # "undefined" => this.b = config.b
    /\ (Completed /\ "findABParams" \in globals) =>
          /\ (config.a.kind = "undefined" /\ config.b.kind = "undefined")
                => curveFitCalls = 1
          /\ (config.a.kind # "undefined" /\ config.b.kind # "undefined")
                => curveFitCalls = 0

\* The target the documentation describes at sample i: 1.0 where
\* x = i * 3 * spread / (numSamples - 1) is below minDist, and
\* exp(-(x - minDist) / spread) elsewhere.
DocumentedTarget(i, spread, minDist) ==
    IF i * 3 * spread < minDist * (numSamples - 1)
    THEN Const(1)
    ELSE [kind |-> "exp",
          num |-> minDist * (numSamples - 1) - i * 3 * spread,
          den |-> spread * (numSamples - 1)]

\* C10: the ys curveFit receives is the documented target at each of the
\* 300 samples (so not all zeros), and curveFit returns after exactly 75
\* minimisation steps.
C10_TargetCurve ==
    cfPc \in {"train", "done"}
        => /\ DOMAIN ys = 0..(numSamples - 1)
           /\ \A i \in DOMAIN ys :
                 ys[i] = DocumentedTarget(i, cfArgs.spread, cfArgs.minDist)
           /\ cfPc = "done" => iter = numIterations

====
